---- MODULE Spec2Model ----
(***************************************************************************)
(* Drift detection engine of shared_services/infrastructure/               *)
(* drift_detection.py: the classifier of TerraformDriftDetector, the three *)
(* detectors, DriftDetectionManager.run_drift_detection, the drift_events  *)
(* table and the alert dispatch.                                           *)
(***************************************************************************)
EXTENDS Integers, Sequences, FiniteSets, TLC

\* ---------------------------------------------------------------- bounds

\* Largest value of the clock.
MaxNow == 2
\* Clock ticks per calendar day (the date of an instant t is t \div TicksPerDay).
TicksPerDay == 2
\* Largest number of resource changes in the plan of the orchestration runs.
MaxChanges == 2

\* Direct calls of check_config_drift in one behaviour.
MaxChecks == 2
\* Largest number of events in one alert of the digest runs.
MaxDigestEvents == 11
\* Runs of the detector blocks in a given order in one behaviour.
MaxOrderRuns == 2
\* Largest days argument of get_drift_history.
MaxDays == 2

\* ----------------------------------------------------------------- enums

\* DriftSeverity values.
DriftSeverity == {"critical", "high", "medium", "low", "info"}

\* DriftType values.
DriftType == {"configuration", "resource_count", "resource_state", "security",
              "cost", "permissions"}

\* The plan tool's action vocabulary.
Actions == {"create", "update", "destroy", "no-op", "read"}

\* ------------------------------------------------------------- sequences

Range(s) == {s[i] : i \in DOMAIN s}

\* Duplicate-free sequences over S of length at most n.
InjSeqs(S, n) ==
  UNION {{s \in [1..k -> S] : \A i, j \in 1..k : i # j => s[i] # s[j]} : k \in 0..n}

\* All sequences over S of length at most n.
SeqsUpTo(S, n) == UNION {[1..k -> S] : k \in 0..n}

RECURSIVE Concat(_)
\* The concatenation of a sequence of sequences.
Concat(ss) == IF ss = <<>> THEN <<>> ELSE Head(ss) \o Concat(Tail(ss))

\* ------------------------------------------------------------ before/after

\* A before/after state of a resource change is None or a dict. The dict is
\* modelled by the sequence of its keys in insertion order, None by the sequence
\* NoneValue: str(d) mentions exactly the names that occur in the sequence.
NoneValue == <<"None">>

\* Key names of the modelled dicts, in lexicographic order.
KeyOrder == <<"acl", "firewall", "iam_policy", "labels", "security_group">>

Keys == Range(KeyOrder)

\* security_fields of _classify_drift_type.
SecurityFields == {"security_group", "iam_policy", "firewall", "acl"}

\* critical_resources of _assess_drift_severity.
CriticalResources == {"google_compute_firewall", "google_project_iam_binding",
                      "google_sql_database_instance"}

\* field in str(d): the dict (or None) mentions the field name.
Mentions(d, field) == field \in Range(d)

\* ---------------------------------------------------------------- classifier

\* _classify_drift_type with the destroy test left out of its first branch.
TypeCreateOnly(actions, before, after) ==
  IF "create" \in Range(actions)
  THEN "resource_count"
  ELSE IF "update" \in Range(actions)
  THEN IF \E f \in SecurityFields : Mentions(before, f) \/ Mentions(after, f)
       THEN "security"
       ELSE "configuration"
  ELSE "resource_state"

\* TerraformDriftDetector._classify_drift_type
ClassifyDriftType(actions, before, after) ==
  IF "create" \in Range(actions) \/ "destroy" \in Range(actions)
  THEN "resource_count"
  ELSE IF "update" \in Range(actions)
  THEN IF \E f \in SecurityFields : Mentions(before, f) \/ Mentions(after, f)
       THEN "security"
       ELSE "configuration"
  ELSE "resource_state"

\* _assess_drift_severity with the update test left out of the critical branch.
SeverityNoCriticalUpdate(resource_type, actions) ==
  IF resource_type \in CriticalResources /\ "destroy" \in Range(actions)
  THEN "critical"
  ELSE IF resource_type \in CriticalResources /\ "create" \in Range(actions)
  THEN "high"
  ELSE IF "destroy" \in Range(actions) THEN "high"
  ELSE IF "create" \in Range(actions) THEN "medium"
  ELSE IF "update" \in Range(actions) THEN "medium"
  ELSE "low"

\* TerraformDriftDetector._assess_drift_severity
AssessDriftSeverity(resource_type, actions) ==
  IF resource_type \in CriticalResources /\ "destroy" \in Range(actions)
  THEN "critical"
  ELSE IF resource_type \in CriticalResources
          /\ ("create" \in Range(actions) \/ "update" \in Range(actions))
  THEN "high"
  ELSE IF "destroy" \in Range(actions) THEN "high"
  ELSE IF "create" \in Range(actions) THEN "medium"
  ELSE IF "update" \in Range(actions) THEN "medium"
  ELSE "low"

\* ------------------------------------------------------------ plan parsing

\* The filter of _parse_terraform_plan keeping every change.
KeepsAll(actions) == TRUE

\* The filter of _parse_terraform_plan: the change is kept unless its action
\* list is ["no-op"] or ["read"].
IsDrift(actions) == actions \notin {<<"no-op">>, <<"read">>}

\* The drift_detail dict _parse_terraform_plan builds for one kept change.
DriftDetail(change) ==
  [resource_type |-> change.type,
   resource_name |-> change.name,
   actions       |-> change.actions,
   before        |-> change.before,
   after         |-> change.after,
   drift_type    |-> ClassifyDriftType(change.actions, change.before, change.after),
   severity      |-> AssessDriftSeverity(change.type, change.actions)]

RECURSIVE ParseTerraformPlan(_)
\* TerraformDriftDetector._parse_terraform_plan over plan_json["resource_changes"].
ParseTerraformPlan(resource_changes) ==
  IF resource_changes = <<>> THEN <<>>
  ELSE LET change == Head(resource_changes)
           rest   == ParseTerraformPlan(Tail(resource_changes))
       IN IF IsDrift(change.actions) THEN <<DriftDetail(change)>> \o rest ELSE rest

\* ------------------------------------------------------------ plan detector

\* Whether the plan tool itself reports changes for these resource changes
\* (exit status 2 of `terraform plan -detailed-exitcode`).
ToolReportsChanges(resource_changes) ==
  \E i \in DOMAIN resource_changes :
     resource_changes[i].actions \notin {<<"no-op">>, <<"read">>}

\* What one invocation of the plan tool can do when the infrastructure's pending
\* changes are resource_changes: the working directory cannot be determined
\* (os.getcwd raises), the terraform directory cannot be entered, the working
\* directory is gone when the tool has run (the os.chdir back raises), the tool is
\* not found, it times out, or it exits with a status and an output (empty, a
\* JSON plan, or text that is not JSON).
ToolRuns(resource_changes) ==
  {[kind |-> "cwd_error", returncode |-> 0, stdout |-> "empty", plan |-> <<>>],
   [kind |-> "chdir_error", returncode |-> 0, stdout |-> "empty", plan |-> <<>>],
   [kind |-> "cwd_gone", returncode |-> 0, stdout |-> "empty", plan |-> <<>>],
   [kind |-> "not_found", returncode |-> 0, stdout |-> "empty", plan |-> <<>>],
   [kind |-> "timeout",   returncode |-> 0, stdout |-> "empty", plan |-> <<>>],
   [kind |-> "exit", returncode |-> 1, stdout |-> "empty", plan |-> <<>>],
   [kind |-> "exit", returncode |-> 1, stdout |-> "json", plan |-> resource_changes],
   [kind |-> "exit", returncode |-> 2, stdout |-> "malformed", plan |-> <<>>],
   [kind |-> "exit",
    returncode |-> IF ToolReportsChanges(resource_changes) THEN 2 ELSE 0,
    stdout |-> "json", plan |-> resource_changes]}

\* check_drift taking every non-zero exit status as drift.
CheckDriftNonZero(run) ==
  IF run.kind \in {"cwd_error", "cwd_gone"}
  THEN [raised |-> TRUE, has_drift |-> FALSE, drift_details |-> <<>>]
  ELSE IF run.kind \in {"chdir_error", "not_found", "timeout"}
  THEN [raised |-> FALSE, has_drift |-> FALSE, drift_details |-> <<>>]
  ELSE LET has_drift == run.returncode # 0
       IN [raised |-> FALSE,
           has_drift |-> has_drift,
           drift_details |->
             IF has_drift /\ run.stdout = "json"
             THEN ParseTerraformPlan(run.plan)
             ELSE <<>>]

\* TerraformDriftDetector.check_drift: the (has_drift, drift_details) it returns,
\* or raised when the exception leaves the method (the finally clause's
\* os.chdir(original_cwd) raises when original_cwd was never bound or is gone).
CheckDrift(run) ==
  IF run.kind \in {"cwd_error", "cwd_gone"}
  THEN [raised |-> TRUE, has_drift |-> FALSE, drift_details |-> <<>>]
  ELSE IF run.kind \in {"chdir_error", "not_found", "timeout"}
  THEN [raised |-> FALSE, has_drift |-> FALSE, drift_details |-> <<>>]
  ELSE LET has_drift == run.returncode = 2
       IN [raised |-> FALSE,
           has_drift |-> has_drift,
           drift_details |->
             IF has_drift /\ run.stdout = "json"
             THEN ParseTerraformPlan(run.plan)
             ELSE <<>>]

\* The process working directory when the manager is built.
OriginalCwd == "/srv/app"

\* self.terraform_dir, the directory check_drift enters to run the tool.
TerraformDir == "/srv/app/infra"

\* The process working directory after check_drift: os.chdir(original_cwd) in
\* the finally clause restores it on every path that bound original_cwd, unless
\* that directory can no longer be entered; then both os.chdir(original_cwd)
\* raise and the process stays in the terraform directory.
CwdAfterCheckDrift(cwd_before, run) ==
  IF run.kind = "cwd_gone" THEN TerraformDir ELSE cwd_before

\* ------------------------------------------------------------ resource detector

\* CloudResourceMonitor.check_gcp_resource_drift, given what _find_untagged_resources
\* and _detect_cost_anomalies do (each returns a list or raises): the one try block
\* covers both lookups and the return statement follows it, so a failing lookup
\* keeps the events appended before it.
CheckGcpResourceDrift(untagged, anomalies) ==
  IF untagged.raises THEN <<>>
  ELSE
    [i \in DOMAIN untagged.items |->
       [resource_type |-> untagged.items[i].type,
        resource_name |-> untagged.items[i].name,
        drift_type    |-> "configuration",
        severity      |-> "medium",
        issue         |-> "Missing required tags",
        expected      |-> <<"Required tags present">>,
        actual        |-> <<"Tags missing or incomplete">>]]
    \o
    (IF anomalies.raises THEN <<>>
     ELSE [i \in DOMAIN anomalies.items |->
       [resource_type |-> anomalies.items[i].service,
        resource_name |-> anomalies.items[i].resource,
        drift_type    |-> "cost",
        severity      |-> IF anomalies.items[i].increase > 50 THEN "high" ELSE "medium",
        issue         |-> "Cost increase of {anomaly['increase']:.1f}%",
        expected      |-> <<"${anomaly['expected']:.2f}">>,
        actual        |-> <<"$", anomalies.items[i].actual>>]])

\* ------------------------------------------------------- configuration detector

\* A tracked file that does not exist.
Missing == "missing"

\* Contents a tracked file can have.
Contents == {"A", "B"}

\* hashlib.sha256(content).hexdigest(): distinct contents, distinct digests.
Sha256(content) == IF content = "A" THEN "sha256:A" ELSE "sha256:B"

\* ConfigurationDriftDetector._hash_config_file: the digest of the content, or ""
\* when the file cannot be read.
HashConfigFile(content, io) == IF io = "read_error" THEN "" ELSE Sha256(content)

\* ConfigurationDriftDetector.create_baseline: the hash of every tracked file that
\* exists.
CreateBaseline(config_paths, files) ==
  [p \in {q \in Range(config_paths) : files[q] # Missing} |->
     HashConfigFile(files[p], "ok")]

\* dict.get(key, default)
DictGet(d, key, default) == IF key \in DOMAIN d THEN d[key] ELSE default

\* A loop body that reports every tracked file that exists as modified.
ConfigDriftAlways(path, content, baseline_hashes, io) ==
  IF content = Missing
  THEN <<[resource_type |-> "configuration_file",
          resource_name |-> path,
          drift_type    |-> "configuration",
          severity      |-> "high",
          issue         |-> "Configuration file missing",
          expected      |-> <<"File exists">>,
          actual        |-> <<"File not found">>]>>
  ELSE <<[resource_type |-> "configuration_file",
          resource_name |-> path,
          drift_type    |-> "configuration",
          severity      |-> "medium",
          issue         |-> "Configuration file modified",
          expected      |-> <<"Hash: {baseline_hash}">>,
          actual        |-> <<"Hash: ", HashConfigFile(content, io)>>,
          dif           |-> "Configuration changed (baseline comparison needed)"]>>

\* The body of the loop of check_config_drift for one path: the events it appends.
\* When the hashes differ and the file cannot be opened, the except clause logs and
\* nothing is appended.
ConfigDriftOf(path, content, baseline_hashes, io) ==
  IF content = Missing
  THEN <<[resource_type |-> "configuration_file",
          resource_name |-> path,
          drift_type    |-> "configuration",
          severity      |-> "high",
          issue         |-> "Configuration file missing",
          expected      |-> <<"File exists">>,
          actual        |-> <<"File not found">>]>>
  ELSE LET current_hash  == HashConfigFile(content, io)
           baseline_hash == DictGet(baseline_hashes, path, "")
       IN IF baseline_hash # "" /\ current_hash # baseline_hash /\ io # "read_error"
          THEN <<[resource_type |-> "configuration_file",
                  resource_name |-> path,
                  drift_type    |-> "configuration",
                  severity      |-> "medium",
                  issue         |-> "Configuration file modified",
                  expected      |-> <<"Hash: {baseline_hash}">>,
                  actual        |-> <<"Hash: ", current_hash>>,
                  dif           |-> "Configuration changed (baseline comparison needed)"]>>
          ELSE <<>>

\* A check_config_drift that looks at the first tracked path only.
CheckConfigDriftFirstOnly(config_paths, files, baseline_hashes, io) ==
  IF \E i \in DOMAIN config_paths : io[config_paths[i]] = "stat_error"
  THEN [raised |-> TRUE, events |-> <<>>]
  ELSE [raised |-> FALSE,
        events |-> ConfigDriftOf(config_paths[1], files[config_paths[1]],
                                 baseline_hashes, io[config_paths[1]])]

\* ConfigurationDriftDetector.check_config_drift: io[p] tells how the file system
\* answers for path p ("ok", "stat_error": Path.exists raises, "read_error": the
\* file exists and cannot be opened). Path.exists is outside every try block, so
\* its error leaves the method.
CheckConfigDrift(config_paths, files, baseline_hashes, io) ==
  IF \E i \in DOMAIN config_paths : io[config_paths[i]] = "stat_error"
  THEN [raised |-> TRUE, events |-> <<>>]
  ELSE [raised |-> FALSE,
        events |-> Concat([i \in DOMAIN config_paths |->
                     ConfigDriftOf(config_paths[i], files[config_paths[i]],
                                   baseline_hashes, io[config_paths[i]])])]

\* ------------------------------------------------------------------ manager

\* The calendar date of instant t (datetime.now().strftime('%Y%m%d')).
DateOf(t) == t \div TicksPerDay

\* The string literal of _generate_drift_id: it has no f prefix, so nothing is
\* interpolated into it.
IdTemplate ==
  "{event_data.get('resource_type', '')}-{event_data.get('resource_name', '')}-{datetime.now().strftime('%Y%m%d')}"

\* hashlib.md5(content.encode()).hexdigest()[:12]: distinct contents, distinct ids.
Md5Prefix(content) == <<"md5", content>>

\* DriftDetectionManager._generate_drift_id at instant t.
GenerateDriftId(event_data, t) == Md5Prefix(IdTemplate)

\* json.dumps(d, indent=2).splitlines() if d else []: the keys in insertion order.
JsonLinesUnsorted(d) ==
  IF d = NoneValue \/ d = <<>> THEN <<>>
  ELSE <<"{">> \o d \o <<"}">>

\* json.dumps(d, indent=2, sort_keys=True).splitlines() if d else []: the keys in
\* sorted order between the braces; None and the empty dict are falsy.
SortedJsonLines(d) ==
  IF d = NoneValue \/ d = <<>> THEN <<>>
  ELSE <<"{">> \o SelectSeq(KeyOrder, LAMBDA k : k \in Range(d)) \o <<"}">>

\* json.dumps(d): the keys in insertion order.
JsonDumps(d) == IF d = NoneValue THEN <<"null">> ELSE <<"{">> \o d \o <<"}">>

\* DriftDetectionManager._generate_diff: difflib.unified_diff yields nothing for
\* equal line lists, and otherwise the two file labels and the hunk.
GenerateDiff(before, after) ==
  LET before_lines == SortedJsonLines(before)
      after_lines  == SortedJsonLines(after)
  IN IF before_lines = after_lines THEN <<>>
     ELSE <<"--- before", "+++ after", "@@">>
          \o Concat([i \in DOMAIN before_lines |-> <<"-", before_lines[i]>>])
          \o Concat([i \in DOMAIN after_lines |-> <<"+", after_lines[i]>>])

\* A string as the list of its lines.
Lines(str) == IF str = "" THEN <<>> ELSE <<str>>

\* The DriftEvent run_drift_detection builds from one terraform drift detail.
TerraformEvent(detail, t) ==
  [id                   |-> GenerateDriftId(detail, t),
   timestamp            |-> t,
   drift_type           |-> detail.drift_type,
   severity             |-> detail.severity,
   resource_type        |-> detail.resource_type,
   resource_name        |-> detail.resource_name,
   expected_value       |-> JsonDumps(detail.before),
   actual_value         |-> JsonDumps(detail.after),
   diff                 |-> GenerateDiff(detail.before, detail.after),
   terraform_module     |-> "main",
   remediation_script   |-> "None",
   auto_fix_available   |-> FALSE,
   resolved             |-> FALSE,
   resolution_timestamp |-> <<>>]

\* The DriftEvent run_drift_detection builds from one cloud resource event.
CloudEvent(event, t) ==
  [id                   |-> GenerateDriftId(event, t),
   timestamp            |-> t,
   drift_type           |-> event.drift_type,
   severity             |-> event.severity,
   resource_type        |-> event.resource_type,
   resource_name        |-> event.resource_name,
   expected_value       |-> DictGet(event, "expected", <<>>),
   actual_value         |-> DictGet(event, "actual", <<>>),
   diff                 |-> Lines(DictGet(event, "issue", "")),
   terraform_module     |-> "None",
   remediation_script   |-> "None",
   auto_fix_available   |-> FALSE,
   resolved             |-> FALSE,
   resolution_timestamp |-> <<>>]

\* The DriftEvent run_drift_detection builds from one configuration event: the
\* diff is read under the key "di".
ConfigEvent(event, t) ==
  [id                   |-> GenerateDriftId(event, t),
   timestamp            |-> t,
   drift_type           |-> event.drift_type,
   severity             |-> event.severity,
   resource_type        |-> event.resource_type,
   resource_name        |-> event.resource_name,
   expected_value       |-> DictGet(event, "expected", <<>>),
   actual_value         |-> DictGet(event, "actual", <<>>),
   diff                 |-> Lines(DictGet(event, "di", "")),
   terraform_module     |-> "None",
   remediation_script   |-> "None",
   auto_fix_available   |-> FALSE,
   resolved             |-> FALSE,
   resolution_timestamp |-> <<>>]

\* -------------------------------------------------------------- event store

\* A plain INSERT into a table without a key: the row is added beside the others.
InsertRow(table, row) == table \cup {row}

\* INSERT OR REPLACE INTO drift_events: id is the PRIMARY KEY of the table, so the
\* row that holds the id is deleted before the new row is inserted.
InsertOrReplace(table, row) == {r \in table : r.id # row.id} \cup {row}

RECURSIVE ExecuteAll(_, _)
\* The loop of _store_drift_events: one INSERT OR REPLACE per event, in order. The
\* 13 columns written are the event's; resolution_timestamp is left NULL.
ExecuteAll(table, drift_events) ==
  IF drift_events = <<>> THEN table
  ELSE ExecuteAll(InsertOrReplace(table, [Head(drift_events) EXCEPT
                                           !.resolution_timestamp = <<>>]),
                  Tail(drift_events))

\* How a call of _store_drift_events over n events can go: it commits, or it fails
\* (connect, an execute, the commit, or the process dies) after some of the
\* inserts were executed.
StoreOutcomes(n) ==
  {[fails |-> FALSE, executed |-> n]}
  \cup {[fails |-> TRUE, executed |-> k] : k \in 0..n}

\* A store on a connection in autocommit mode: every executed insert is visible
\* at once.
StoreDriftEventsAutocommit(table, drift_events, outcome) ==
  ExecuteAll(table, SubSeq(drift_events, 1, outcome.executed))

\* DriftDetectionManager._store_drift_events: the table a later connection sees
\* after the call. sqlite3 opens a transaction before the first insert and the
\* one commit follows the loop; when the call fails before the commit, the except
\* clause only logs, nothing was committed and the inserts executed so far are
\* rolled back with the connection.
StoreDriftEvents(table, drift_events, outcome) ==
  IF outcome.fails THEN table ELSE ExecuteAll(table, drift_events)

\* -------------------------------------------------------------------- alerts

\* drift_events[:10] of _format_drift_alert.
AlertLimit == 10

\* The lines _format_drift_alert writes for one event: string literals without an
\* f prefix, so nothing of the event is interpolated into them.
EntryLines ==
  <<"* {event.severity.value.upper()}: {event.resource_type}/{event.resource_name}",
    "  Type: {event.drift_type.value}",
    "  Expected: {event.expected_value[:100]}{'...' if len(event.expected_value) > 100 else ''}",
    "  Actual: {event.actual_value[:100]}{'...' if len(event.actual_value) > 100 else ''}",
    "">>

\* DriftDetectionManager._format_drift_alert: the lines of the message. The header,
\* the block of each of the first ten events and the trailing line are string
\* literals without an f prefix.
FormatDriftAlert(drift_events) ==
  LET shown == SubSeq(drift_events, 1,
                      IF Len(drift_events) < AlertLimit THEN Len(drift_events)
                      ELSE AlertLimit)
  IN <<"Infrastructure Drift Detected",
       "Time: {datetime.now().strftime('%Y-%m-%d %H:%M:%S')}",
       "Events: {len(drift_events)}",
       "">>
     \o Concat([i \in DOMAIN shown |-> EntryLines])
     \o (IF Len(drift_events) > AlertLimit
         THEN <<"... and {len(drift_events) - 10} more events">> ELSE <<>>)

\* A _send_drift_alerts that does not look at alerting.enabled.
SendDriftAlertsAlways(alerting, drift_events, webhook_ok) ==
  LET alert_message == FormatDriftAlert(drift_events)
  IN (IF alerting.webhook_url # "None"
      THEN <<[channel |-> "webhook", delivered |-> webhook_ok,
              message |-> alert_message]>>
      ELSE <<>>)
     \o
     (IF alerting.email_recipients # <<>>
      THEN <<[channel |-> "email", delivered |-> TRUE,
              message |-> alert_message]>>
      ELSE <<>>)

\* A _send_drift_alerts whose webhook error reaches its except clause, so the
\* email step is skipped.
SendDriftAlertsWebhookBlocks(alerting, drift_events, webhook_ok) ==
  IF ~alerting.enabled THEN <<>>
  ELSE LET alert_message == FormatDriftAlert(drift_events)
       IN (IF alerting.webhook_url # "None"
           THEN <<[channel |-> "webhook", delivered |-> webhook_ok,
                   message |-> alert_message]>>
           ELSE <<>>)
          \o
          (IF alerting.email_recipients # <<>>
              /\ (webhook_ok \/ alerting.webhook_url = "None")
           THEN <<[channel |-> "email", delivered |-> TRUE,
                   message |-> alert_message]>>
           ELSE <<>>)

\* DriftDetectionManager._send_drift_alerts: the deliveries it attempts, in order.
\* _send_webhook_alert catches its own errors, so the email step follows a failed
\* webhook delivery.
SendDriftAlerts(alerting, drift_events, webhook_ok) ==
  IF ~alerting.enabled THEN <<>>
  ELSE LET alert_message == FormatDriftAlert(drift_events)
       IN (IF alerting.webhook_url # "None"
           THEN <<[channel |-> "webhook", delivered |-> webhook_ok,
                   message |-> alert_message]>>
           ELSE <<>>)
          \o
          (IF alerting.email_recipients # <<>>
           THEN <<[channel |-> "email", delivered |-> TRUE,
                   message |-> alert_message]>>
           ELSE <<>>)

\* The high_severity_events of run_drift_detection.
HighSeverityEvents(all_events) ==
  SelectSeq(all_events, LAMBDA e : e.severity \in {"critical", "high"})

\* ------------------------------------------------------------------- state

\* Threads that may call run_drift_detection of the one manager.
Threads == {"t1", "t2"}

\* The files config["configuration"]["paths"] can name.
Paths == {"configs/app.json", "configs/db.yaml"}

VARIABLES
  now,                \* the clock (datetime.now())
  tf_plan,            \* the resource changes the plan tool reports
  files,              \* the content of each tracked file, or Missing
  config,             \* self.config: the detectors registered, the tracked paths, alerting
  baseline_hashes,    \* config_detector.baseline_hashes
  store,              \* the rows of the drift_events table
  callers,            \* the threads that call run_drift_detection
  pc,                 \* where each thread is in run_drift_detection
  all_drift_events,   \* the all_drift_events list of each thread's run
  terraform_details,  \* the terraform_details of each thread's run
  tool_result,        \* what the plan tool did in each thread's run
  log,                \* the calls each thread's run has made, in order
  faults,             \* the errors that happened in each thread's run
  sent,               \* the deliveries each thread's run attempted, in order
  result,             \* how each thread's last call ended and what it returned
  classified,         \* a direct call of the classifier: its arguments and results
  has_terraform_drift,  \* the has_terraform_drift of each thread's run
  cloud_drift_events,   \* the cloud_drift_events of each thread's run
  high_severity_events, \* the list each thread's run handed to _send_drift_alerts
  config_checks,      \* the direct calls of check_config_drift, in order
  order_runs,         \* runs of the three detector blocks in a given order
  history,            \* a call of get_drift_history: its argument and what it returned
  cwd                 \* the working directory of the process

vars == <<now, tf_plan, files, config, baseline_hashes, store, callers, pc,
          all_drift_events, terraform_details, tool_result, log, faults, sent, result,
          classified, has_terraform_drift, cloud_drift_events, high_severity_events,
          config_checks, order_runs, history, cwd>>

env_vars == <<now, tf_plan, files, config, baseline_hashes, callers, classified,
              config_checks, order_runs, history>>

\* No direct call of the classifier.
NoCall == [status |-> "none", change |-> <<>>, drift_type |-> "none", severity |-> "none"]

NoToolRun == [kind |-> "none", returncode |-> 0, stdout |-> "empty", plan |-> <<>>]

\* No call of get_drift_history.
NoHistory == [status |-> "none", days |-> 0, failed |-> FALSE, events |-> <<>>]

\* The state after DriftDetectionManager.__init__ (detectors registered, baseline
\* created, table created and empty) in an environment drawn from the given sets.
InitWith(plans, configs, file_states, threads, calls) ==
  /\ now = 0
  /\ tf_plan \in plans
  /\ files \in file_states
  /\ config \in configs
  /\ baseline_hashes = CreateBaseline(config.paths, files)
  /\ store = {}
  /\ callers = threads
  /\ pc = [c \in Threads |-> "idle"]
  /\ all_drift_events = [c \in Threads |-> <<>>]
  /\ terraform_details = [c \in Threads |-> <<>>]
  /\ tool_result = [c \in Threads |-> NoToolRun]
  /\ log = [c \in Threads |-> <<>>]
  /\ faults = [c \in Threads |-> {}]
  /\ sent = [c \in Threads |-> <<>>]
  /\ result = [c \in Threads |-> [status |-> "none", events |-> <<>>]]
  /\ classified \in calls
  /\ has_terraform_drift = [c \in Threads |-> FALSE]
  /\ cloud_drift_events = [c \in Threads |-> <<>>]
  /\ high_severity_events = [c \in Threads |-> <<>>]
  /\ config_checks = <<>>
  /\ order_runs = <<>>
  /\ history = NoHistory
  /\ cwd = OriginalCwd

\* ------------------------------------------------------------- run steps

\* A run_drift_detection whose alert statements precede the store write.
PhaseAfterAlertFirst(phase, raised) ==
  IF raised THEN "except"
  ELSE CASE phase = "idle" -> "terraform"
         [] phase = "terraform" -> "cloud"
         [] phase = "cloud" -> "config"
         [] phase = "config" -> "alert"
         [] phase = "alert" -> "store"
         [] phase = "store" -> "return"
         [] OTHER -> "idle"

\* The order of the statements of run_drift_detection: the terraform, cloud and
\* configuration blocks, the store write, the alert step, the return; an
\* exception in the try block leads to its except clause.
PhaseAfter(phase, raised) ==
  IF raised THEN "except"
  ELSE CASE phase = "idle" -> "terraform"
         [] phase = "terraform" -> "cloud"
         [] phase = "cloud" -> "config"
         [] phase = "config" -> "store"
         [] phase = "store" -> "alert"
         [] phase = "alert" -> "return"
         [] OTHER -> "idle"

\* The call of run_drift_detection by thread c: nothing in the method looks at
\* whether another call is in progress.
StartRun(c) ==
  /\ c \in callers
  /\ pc[c] = "idle"
  /\ pc' = [pc EXCEPT ![c] = PhaseAfter("idle", FALSE)]
  /\ all_drift_events' = [all_drift_events EXCEPT ![c] = <<>>]
  /\ terraform_details' = [terraform_details EXCEPT ![c] = <<>>]
  /\ tool_result' = [tool_result EXCEPT ![c] = NoToolRun]
  /\ log' = [log EXCEPT ![c] = <<>>]
  /\ faults' = [faults EXCEPT ![c] = {}]
  /\ sent' = [sent EXCEPT ![c] = <<>>]
  /\ result' = [result EXCEPT ![c] = [status |-> "running", events |-> <<>>]]
  /\ has_terraform_drift' = [has_terraform_drift EXCEPT ![c] = FALSE]
  /\ cloud_drift_events' = [cloud_drift_events EXCEPT ![c] = <<>>]
  /\ high_severity_events' = [high_severity_events EXCEPT ![c] = <<>>]
  /\ UNCHANGED <<env_vars, store, cwd>>

\* The errors a plan tool run counts as.
ToolFaults(run, r) ==
  (IF r.raised THEN {"plan_raised"} ELSE {})
  \cup (IF run.kind \in {"chdir_error", "not_found", "timeout"}
           \/ run.stdout = "malformed"
           \/ (run.kind = "exit" /\ run.returncode = 1)
        THEN {"plan_failed"} ELSE {})

\* Terraform drift detection of run_drift_detection: check_drift and one DriftEvent
\* per drift detail. An exception leaving check_drift enters the except clause
\* of run_drift_detection.
TerraformStep(c) ==
  /\ pc[c] = "terraform"
  /\ IF ~config.terraform
     THEN /\ pc' = [pc EXCEPT ![c] = PhaseAfter("terraform", FALSE)]
          /\ UNCHANGED <<all_drift_events, terraform_details, has_terraform_drift,
                         tool_result, log, faults, cwd>>
     ELSE \E run \in ToolRuns(tf_plan) :
            LET r == CheckDrift(run)
                details == IF r.has_drift THEN r.drift_details ELSE <<>>
            IN /\ tool_result' = [tool_result EXCEPT ![c] = run]
               /\ cwd' = CwdAfterCheckDrift(cwd, run)
               /\ log' = [log EXCEPT ![c] = Append(@, "terraform")]
               /\ faults' = [faults EXCEPT ![c] = @ \cup ToolFaults(run, r)]
               /\ IF r.raised
                  THEN /\ pc' = [pc EXCEPT ![c] = PhaseAfter("terraform", TRUE)]
                       /\ UNCHANGED <<all_drift_events, terraform_details,
                                      has_terraform_drift>>
                  ELSE /\ pc' = [pc EXCEPT ![c] = PhaseAfter("terraform", FALSE)]
                       /\ has_terraform_drift' =
                            [has_terraform_drift EXCEPT ![c] = r.has_drift]
                       /\ terraform_details' =
                            [terraform_details EXCEPT ![c] = r.drift_details]
                       /\ all_drift_events' = [all_drift_events EXCEPT ![c] =
                            @ \o [i \in DOMAIN details |-> TerraformEvent(details[i], now)]]
  /\ UNCHANGED <<env_vars, store, sent, result, cloud_drift_events,
                 high_severity_events>>

\* Cloud resource drift detection of run_drift_detection: check_gcp_resource_drift
\* over what the two lookups give, and one DriftEvent per event.
CloudStep(c, lookups) ==
  /\ pc[c] = "cloud"
  /\ pc' = [pc EXCEPT ![c] = PhaseAfter("cloud", FALSE)]
  /\ IF ~config.cloud_resources
     THEN UNCHANGED <<all_drift_events, cloud_drift_events, log, faults>>
     ELSE \E l \in lookups :
            LET events == CheckGcpResourceDrift(l.untagged, l.anomalies)
            IN /\ cloud_drift_events' = [cloud_drift_events EXCEPT ![c] = events]
               /\ log' = [log EXCEPT ![c] = Append(@, "cloud")]
               /\ faults' = [faults EXCEPT ![c] = @ \cup
                    (IF l.untagged.raises \/ l.anomalies.raises
                     THEN {"cloud_failed"} ELSE {})]
               /\ all_drift_events' = [all_drift_events EXCEPT ![c] =
                    @ \o [i \in DOMAIN events |-> CloudEvent(events[i], now)]]
  /\ UNCHANGED <<env_vars, store, terraform_details, tool_result, sent, result,
                 has_terraform_drift, high_severity_events, cwd>>

\* How the file system answers check_config_drift in one pass over config_paths:
\* every path is served, Path.exists raises for the first one, or the last one
\* cannot be opened.
FileAnswers(config_paths) ==
  {[p \in Paths |-> "ok"],
   [p \in Paths |-> IF p = Head(config_paths) THEN "stat_error" ELSE "ok"],
   [p \in Paths |-> IF p = config_paths[Len(config_paths)] THEN "read_error" ELSE "ok"]}

\* Configuration drift detection of run_drift_detection: check_config_drift and
\* one DriftEvent per event. An exception leaving check_config_drift enters the
\* except clause of run_drift_detection.
ConfigStep(c) ==
  /\ pc[c] = "config"
  /\ IF ~config.configuration
     THEN /\ pc' = [pc EXCEPT ![c] = PhaseAfter("config", FALSE)]
          /\ UNCHANGED <<all_drift_events, log, faults>>
     ELSE \E io \in FileAnswers(config.paths) :
            LET r == CheckConfigDrift(config.paths, files, baseline_hashes, io)
            IN /\ log' = [log EXCEPT ![c] = Append(@, "config")]
               /\ faults' = [faults EXCEPT ![c] = @ \cup
                    (IF r.raised THEN {"config_raised"} ELSE {})]
               /\ pc' = [pc EXCEPT ![c] = PhaseAfter("config", r.raised)]
               /\ all_drift_events' = [all_drift_events EXCEPT ![c] =
                    @ \o [i \in DOMAIN r.events |-> ConfigEvent(r.events[i], now)]]
  /\ UNCHANGED <<env_vars, store, terraform_details, tool_result, sent, result,
                 has_terraform_drift, cloud_drift_events, high_severity_events, cwd>>

\* A _store_drift_events without its except clause: the error of a failed write
\* reaches run_drift_detection.
StoreErrorPropagates(outcome) == outcome.fails

\* Whether an error of the write leaves _store_drift_events: its except clause
\* catches every Exception and logs it.
StoreErrorEscapes(outcome) == FALSE

\* self._store_drift_events(all_drift_events) of run_drift_detection.
StoreStep(c) ==
  /\ pc[c] = "store"
  /\ \E outcome \in StoreOutcomes(Len(all_drift_events[c])) :
       /\ store' = StoreDriftEvents(store, all_drift_events[c], outcome)
       /\ faults' = [faults EXCEPT ![c] = @ \cup
            (IF outcome.fails THEN {"store_failed"} ELSE {})]
       /\ pc' = [pc EXCEPT ![c] = PhaseAfter("store", StoreErrorEscapes(outcome))]
  /\ log' = [log EXCEPT ![c] = Append(@, "store")]
  /\ UNCHANGED <<env_vars, all_drift_events, terraform_details, tool_result, sent, result,
                 has_terraform_drift, cloud_drift_events, high_severity_events, cwd>>

\* The alert step of run_drift_detection: _send_drift_alerts is called when there
\* is a high or critical event.
AlertStep(c) ==
  /\ pc[c] = "alert"
  /\ pc' = [pc EXCEPT ![c] = PhaseAfter("alert", FALSE)]
  /\ LET high == HighSeverityEvents(all_drift_events[c])
     IN IF high = <<>>
        THEN UNCHANGED <<log, faults, sent, high_severity_events>>
        ELSE \E webhook_ok \in BOOLEAN :
               LET deliveries == SendDriftAlerts(config.alerting, high, webhook_ok)
               IN /\ high_severity_events' = [high_severity_events EXCEPT ![c] = high]
                  /\ log' = [log EXCEPT ![c] = Append(@, "alert")]
                  /\ sent' = [sent EXCEPT ![c] = @ \o deliveries]
                  /\ faults' = [faults EXCEPT ![c] = @ \cup
                       (IF \E i \in DOMAIN deliveries : ~deliveries[i].delivered
                        THEN {"webhook_failed"} ELSE {})]
  /\ UNCHANGED <<env_vars, store, all_drift_events, terraform_details, tool_result, result,
                 has_terraform_drift, cloud_drift_events, cwd>>

\* run_drift_detection without its except clause: the exception leaves the call.
RunOutcomeUncaught(raised_in_try) == IF raised_in_try THEN "raised" ELSE "returned"

\* How run_drift_detection ends: its except clause catches every Exception of the
\* try block and the return statement follows the try statement.
RunOutcome(raised_in_try) == "returned"

\* A return value that drops the events of a run whose store write failed.
ReturnedEmptyAfterStoreFailure(events, run_faults) ==
  IF "store_failed" \in run_faults THEN <<>> ELSE events

\* The list run_drift_detection returns: all_drift_events, whatever happened.
ReturnValue(events, run_faults) == events

\* The end of run_drift_detection: return all_drift_events.
ReturnStep(c) ==
  /\ pc[c] \in {"return", "except"}
  /\ pc' = [pc EXCEPT ![c] = PhaseAfter(pc[c], FALSE)]
  /\ LET status == RunOutcome(pc[c] = "except")
     IN result' = [result EXCEPT ![c] =
          [status |-> status,
           events |-> IF status = "returned"
                      THEN ReturnValue(all_drift_events[c], faults[c]) ELSE <<>>]]
  /\ UNCHANGED <<env_vars, store, all_drift_events, terraform_details, tool_result,
                 log, faults, sent, has_terraform_drift, cloud_drift_events,
                 high_severity_events, cwd>>

\* ------------------------------------------------------- classifier calls

\* _classify_drift_type and _assess_drift_severity called on the arguments of the
\* pending call.
ClassifyCall ==
  /\ classified.status = "pending"
  /\ classified' =
       [classified EXCEPT
          !.status = "done",
          !.drift_type = ClassifyDriftType(classified.change[1].actions,
                                           classified.change[1].before,
                                           classified.change[1].after),
          !.severity = AssessDriftSeverity(classified.change[1].type,
                                           classified.change[1].actions)]
  /\ UNCHANGED <<now, tf_plan, files, config, baseline_hashes, store, callers, pc,
                 all_drift_events, terraform_details, tool_result, log, faults, sent,
                 result, has_terraform_drift, cloud_drift_events, high_severity_events,
                 config_checks, order_runs, history, cwd>>

\* ------------------------------------------------ configuration detector calls

\* check_config_drift called on the detector itself: the call is recorded with the
\* files and the file system's answers it met, the baseline it read, and what it
\* gave back. The method reads self.baseline_hashes and assigns nothing to it.
CheckConfigCall ==
  /\ Len(config_checks) < MaxChecks
  /\ \E io \in FileAnswers(config.paths) :
       LET r == CheckConfigDrift(config.paths, files, baseline_hashes, io)
       IN config_checks' = Append(config_checks,
            [files |-> files, io |-> io, baseline |-> baseline_hashes,
             raised |-> r.raised, events |-> r.events])
  /\ UNCHANGED <<now, tf_plan, files, config, baseline_hashes, store, callers, pc,
                 all_drift_events, terraform_details, tool_result, log, faults, sent,
                 result, classified, has_terraform_drift, cloud_drift_events,
                 high_severity_events, order_runs, history, cwd>>

\* ------------------------------------------------------ detector block orders

\* The three detector blocks of run_drift_detection.
Detectors == {"terraform", "cloud", "config"}

\* The DriftEvents one detector block of run_drift_detection appends, when the
\* plan tool exits with its JSON plan, the lookups answer l and the file system
\* serves every path.
BlockEvents(detector, l) ==
  IF detector = "terraform"
  THEN LET r == CheckDrift([kind |-> "exit",
                            returncode |-> IF ToolReportsChanges(tf_plan) THEN 2 ELSE 0,
                            stdout |-> "json", plan |-> tf_plan])
       IN [i \in DOMAIN r.drift_details |-> TerraformEvent(r.drift_details[i], now)]
  ELSE IF detector = "cloud"
  THEN LET events == CheckGcpResourceDrift(l.untagged, l.anomalies)
       IN [i \in DOMAIN events |-> CloudEvent(events[i], now)]
  ELSE LET r == CheckConfigDrift(config.paths, files, baseline_hashes,
                                 [p \in Paths |-> "ok"])
       IN [i \in DOMAIN r.events |-> ConfigEvent(r.events[i], now)]

\* The body of run_drift_detection with its three detector blocks executed in the
\* given order, up to the store write: the list it returns and the table it
\* leaves.
RunInOrder(order, l) ==
  /\ Len(order_runs) < MaxOrderRuns
  /\ LET events == Concat([i \in DOMAIN order |-> BlockEvents(order[i], l)])
     IN order_runs' = Append(order_runs,
          [order |-> order, lookups |-> l, events |-> events,
           table |-> StoreDriftEvents(store, events,
                       [fails |-> FALSE, executed |-> Len(events)])])
  /\ UNCHANGED <<now, tf_plan, files, config, baseline_hashes, store, callers, pc,
                 all_drift_events, terraform_details, tool_result, log, faults, sent,
                 result, classified, has_terraform_drift, cloud_drift_events,
                 high_severity_events, config_checks, history, cwd>>

\* ---------------------------------------------------------------- history

\* datetime.isoformat(): the calendar date, then the time of day.
IsoFormat(t) == <<DateOf(t), t % TicksPerDay>>

\* datetime.fromisoformat()
FromIsoFormat(text) == text[1] * TicksPerDay + text[2]

\* SQLite's comparison a >= b of two TEXT values holding ISO timestamps: the
\* date part decides, then the time part.
TextGeq(a, b) == a[1] > b[1] \/ (a[1] = b[1] /\ a[2] >= b[2])

\* The rows the SELECT of get_drift_history matches at instant t: those whose
\* timestamp text is >= the text of t - timedelta(days=days).
RowsSince(table, t, days) ==
  {r \in table : TextGeq(IsoFormat(r.timestamp), IsoFormat(t - days * TicksPerDay))}

\* The DriftEvent get_drift_history builds from a row.
EventOfRow(r) == [r EXCEPT !.timestamp = FromIsoFormat(IsoFormat(r.timestamp))]

\* A get_drift_history whose SELECT has no ORDER BY: the rows in any order.
HistoryUnordered(table, t, days, failed) ==
  IF failed THEN {<<>>}
  ELSE LET rows == RowsSince(table, t, days)
       IN {[i \in DOMAIN seq |-> EventOfRow(seq[i])] :
             seq \in {q \in [1..Cardinality(rows) -> rows] :
                        \A i, j \in DOMAIN q : i # j => q[i] # q[j]}}

\* DriftDetectionManager.get_drift_history at instant t: the lists it can return.
\* The rows come ORDER BY timestamp DESC, rows of equal timestamp in either
\* order; when the read fails the except clause returns [].
HistoryResults(table, t, days, failed) ==
  IF failed THEN {<<>>}
  ELSE LET rows == RowsSince(table, t, days)
       IN {[i \in DOMAIN seq |-> EventOfRow(seq[i])] :
             seq \in {q \in [1..Cardinality(rows) -> rows] :
                        /\ \A i, j \in DOMAIN q : i # j => q[i] # q[j]
                        /\ \A i, j \in DOMAIN q :
                             i < j => TextGeq(IsoFormat(q[i].timestamp),
                                              IsoFormat(q[j].timestamp))}}

\* A call of get_drift_history(days); failed tells whether the read of the
\* database raises.
GetDriftHistory(days, failed) ==
  /\ history.status = "none"
  /\ \E events \in HistoryResults(store, now, days, failed) :
       history' = [status |-> "returned", days |-> days, failed |-> failed,
                   events |-> events]
  /\ UNCHANGED <<now, tf_plan, files, config, baseline_hashes, store, callers, pc,
                 all_drift_events, terraform_details, tool_result, log, faults, sent,
                 result, classified, has_terraform_drift, cloud_drift_events,
                 high_severity_events, config_checks, order_runs, cwd>>

\* ------------------------------------------------------------ environment

\* Time passes.
Tick ==
  /\ now < MaxNow
  /\ now' = now + 1
  /\ UNCHANGED <<tf_plan, files, config, baseline_hashes, store, callers, pc,
                 all_drift_events, terraform_details, tool_result, log, faults, sent,
                 result, classified, has_terraform_drift, cloud_drift_events,
                 high_severity_events, config_checks, order_runs, history, cwd>>

\* A tracked file is edited, created or removed.
WriteFile(p, content) ==
  /\ files[p] # content
  /\ files' = [files EXCEPT ![p] = content]
  /\ UNCHANGED <<now, tf_plan, config, baseline_hashes, store, callers, pc,
                 all_drift_events, terraform_details, tool_result, log, faults, sent,
                 result, classified, has_terraform_drift, cloud_drift_events,
                 high_severity_events, config_checks, order_runs, history, cwd>>

\* The remediation workflow outside the engine marks a stored event resolved: it
\* sets the resolved and resolution_timestamp columns of the row.
MarkResolved(r) ==
  /\ r \in store
  /\ ~r.resolved
  /\ store' = (store \ {r})
                 \cup {[r EXCEPT !.resolved = TRUE, !.resolution_timestamp = <<now>>]}
  /\ UNCHANGED <<now, tf_plan, files, config, baseline_hashes, callers, pc,
                 all_drift_events, terraform_details, tool_result, log, faults, sent,
                 result, classified, has_terraform_drift, cloud_drift_events,
                 high_severity_events, config_checks, order_runs, history, cwd>>

\* --------------------------------------------------------------- environments

FirewallDestroy ==
  [type |-> "google_compute_firewall", name |-> "allow_ssh",
   actions |-> <<"destroy">>, before |-> <<"firewall">>, after |-> NoneValue]

BucketUpdate ==
  [type |-> "google_storage_bucket", name |-> "logs",
   actions |-> <<"update">>, before |-> <<"labels">>, after |-> <<"labels", "acl">>]

BucketNoop ==
  [type |-> "google_storage_bucket", name |-> "logs",
   actions |-> <<"no-op">>, before |-> <<"labels">>, after |-> <<"labels">>]

DataRead ==
  [type |-> "google_storage_bucket", name |-> "archive",
   actions |-> <<"read">>, before |-> NoneValue, after |-> <<"labels">>]

\* The plans of the orchestration runs.
MainPlans == {<<>>, <<FirewallDestroy, BucketUpdate>>, <<BucketNoop, FirewallDestroy>>}

\* Every resource change the classifier is run on: each duplicate-free action list,
\* critical and other resource types, before/after with and without a security
\* field name.
AllChanges ==
  [type    : {"google_compute_firewall", "google_sql_database_instance",
              "google_storage_bucket"},
   name    : {"main"},
   actions : InjSeqs(Actions, Cardinality(Actions)),
   before  : {NoneValue, <<"labels">>, <<"firewall", "labels">>},
   after   : {<<>>, <<"labels">>, <<"labels", "acl">>}]

\* The plans of the plan detector's runs: every single change, and the sequences
\* of the four named changes.
PlanPlans ==
  {<<ch>> : ch \in AllChanges}
  \cup SeqsUpTo({FirewallDestroy, BucketUpdate, BucketNoop, DataRead}, MaxChanges)

Returned(items) == [raises |-> FALSE, items |-> items]

Raised == [raises |-> TRUE, items |-> <<>>]

\* What _find_untagged_resources and _detect_cost_anomalies give in one pass: the
\* empty lists of the two methods as written, and results and failures of the
\* inventory and billing lookups they stand for.
Lookups ==
  {[untagged |-> Returned(<<>>), anomalies |-> Returned(<<>>)],
   [untagged |-> Returned(<<[type |-> "compute_instance", name |-> "vm-1"]>>),
    anomalies |-> Raised],
   [untagged |-> Returned(<<>>),
    anomalies |-> Returned(<<[service |-> "bigquery", resource |-> "warehouse",
                              increase |-> 60, actual |-> "160.00"]>>)]}

AllChannels == [enabled |-> TRUE, webhook_url |-> "https://hooks.example/drift",
                email_recipients |-> <<"ops@example.com">>,
                severity_threshold |-> "medium"]

\* The alerting section of _get_default_config.
DefaultAlerting == [enabled |-> TRUE, webhook_url |-> "None", email_recipients |-> <<>>,
                    severity_threshold |-> "medium"]

AlertingOff == [enabled |-> FALSE, webhook_url |-> "https://hooks.example/drift",
                email_recipients |-> <<"ops@example.com">>,
                severity_threshold |-> "medium"]

\* The configurations of the orchestration runs.
MainConfigs ==
  {[terraform |-> TRUE, cloud_resources |-> TRUE, configuration |-> TRUE,
    paths |-> <<"configs/app.json">>, alerting |-> AllChannels],
   [terraform |-> FALSE, cloud_resources |-> TRUE, configuration |-> TRUE,
    paths |-> <<"configs/app.json">>, alerting |-> AlertingOff]}

\* The configuration of the plan detector's runs.
PlanConfigs ==
  {[terraform |-> TRUE, cloud_resources |-> FALSE, configuration |-> FALSE,
    paths |-> <<"configs/app.json">>, alerting |-> DefaultAlerting]}

AllPresent == [p \in Paths |-> "A"]

\* The configuration of the configuration detector's calls: both paths tracked.
DetectorConfigs ==
  {[terraform |-> FALSE, cloud_resources |-> FALSE, configuration |-> TRUE,
    paths |-> <<"configs/app.json", "configs/db.yaml">>, alerting |-> DefaultAlerting]}

\* The tracked files when the baseline is created: each one exists or does not.
FilesAtBaseline == [Paths -> {"A", Missing}]

\* ------------------------------------------------------------ specifications

\* The steps of run_drift_detection.
RunStep(c) ==
  \/ StartRun(c)
  \/ TerraformStep(c)
  \/ CloudStep(c, Lookups)
  \/ ConfigStep(c)
  \/ StoreStep(c)
  \/ AlertStep(c)
  \/ ReturnStep(c)

Init == InitWith(MainPlans, MainConfigs, {AllPresent}, {"t1"}, {NoCall})

Next ==
  \/ \E c \in Threads : RunStep(c)
  \/ Tick
  \/ \E p \in Range(config.paths), content \in Contents \cup {Missing} :
       WriteFile(p, content)

\* One thread calls the manager while time passes and tracked files change.
Spec == Init /\ [][Next]_vars

InitPlan == InitWith(PlanPlans, PlanConfigs, {AllPresent}, {"t1"}, {NoCall})

NextPlan == \E c \in Threads : RunStep(c)

\* One thread runs the plan detector alone over every plan.
SpecPlan == InitPlan /\ [][NextPlan]_vars

InitConcurrent ==
  InitWith({<<FirewallDestroy, BucketUpdate>>}, {CHOOSE cfg \in MainConfigs : cfg.terraform},
           {AllPresent}, Threads, {NoCall})

NextConcurrent == \E c \in Threads : RunStep(c)

\* Two threads call the one manager.
SpecConcurrent == InitConcurrent /\ [][NextConcurrent]_vars

InitClassifier ==
  InitWith({<<>>}, PlanConfigs, {AllPresent}, {"t1"},
           {[status |-> "pending", change |-> <<ch>>, drift_type |-> "none",
             severity |-> "none"] : ch \in AllChanges})

NextClassifier == ClassifyCall

\* The classifier is called on every resource change.
SpecClassifier == InitClassifier /\ [][NextClassifier]_vars

InitDetector == InitWith({<<>>}, DetectorConfigs, FilesAtBaseline, {"t1"}, {NoCall})

NextDetector ==
  \/ CheckConfigCall
  \/ \E p \in Range(config.paths), content \in Contents \cup {Missing} :
       WriteFile(p, content)

\* check_config_drift is called on the detector while the tracked files change.
SpecDetector == InitDetector /\ [][NextDetector]_vars

\* -------------------------------------------------------------------- claims

\* The detectors the configuration registers, in the order the run invokes them.
EnabledDetectors ==
  (IF config.terraform THEN {"terraform"} ELSE {})
  \cup (IF config.cloud_resources THEN {"cloud"} ELSE {})
  \cup (IF config.configuration THEN {"config"} ELSE {})

\* Thread c's call has ended and its run's record is still in place.
Ended(c) == pc[c] = "idle" /\ result[c].status \in {"returned", "raised"}

\* C1: when an enabled detector raises, the run is not aborted: every enabled
\* detector is still invoked and the store step still happens before the run
\* returns.
C1_DetectorErrorDoesNotAbortRun ==
  \A c \in Threads :
    (Ended(c) /\ faults[c] \cap {"plan_raised", "config_raised"} # {})
      => /\ EnabledDetectors \subseteq Range(log[c])
         /\ "store" \in Range(log[c])

\* C2: at most one run of the manager is in flight at any time.
C2_AtMostOneRunInFlight ==
  \A c1, c2 \in Threads : (pc[c1] # "idle" /\ pc[c2] # "idle") => c1 = c2

\* C3: run_drift_detection never propagates an exception: whatever fails in the
\* run, the call ends by returning its list of events.
C3_RunNeverRaises ==
  \A c \in Threads :
    /\ result[c].status # "raised"
    /\ Ended(c) => result[c].events = all_drift_events[c]

\* C3 witness: a call has returned although the plan tool, the store write and the
\* webhook delivery all failed in it.
C3_Witness ==
  \E c \in Threads :
    /\ Ended(c)
    /\ result[c].status = "returned"
    /\ {"plan_failed", "store_failed", "webhook_failed"} \subseteq faults[c]

\* The changes of a plan whose action set is neither {no-op} nor {read}.
RealChanges(plan) ==
  SelectSeq(plan, LAMBDA ch : Range(ch.actions) \notin {{"no-op"}, {"read"}})

\* C4: a run whose plan tool reports changes returns no event for a change whose
\* action set is {no-op} or {read} and exactly one event for every other change,
\* in order, with the classifier's drift type and severity.
C4_OneEventPerRealChange ==
  \A c \in Threads :
    (/\ Ended(c)
     /\ tool_result[c].kind = "exit"
     /\ tool_result[c].returncode = 2
     /\ tool_result[c].stdout = "json")
      => LET changes == RealChanges(tool_result[c].plan)
             events  == SelectSeq(result[c].events,
                                  LAMBDA e : e.terraform_module = "main")
         IN /\ Len(events) = Len(changes)
            /\ \A i \in DOMAIN changes :
                 /\ events[i].resource_type = changes[i].type
                 /\ events[i].resource_name = changes[i].name
                 /\ events[i].drift_type =
                      ClassifyDriftType(changes[i].actions, changes[i].before,
                                        changes[i].after)
                 /\ events[i].severity =
                      AssessDriftSeverity(changes[i].type, changes[i].actions)

\* C4 witness: a plan of a no-op change and a destroyed firewall rule gave one
\* event, critical and of type resource_count.
C4_Witness ==
  \E c \in Threads :
    /\ Ended(c)
    /\ tool_result[c].returncode = 2
    /\ tool_result[c].plan = <<BucketNoop, FirewallDestroy>>
    /\ Len(result[c].events) = 1
    /\ result[c].events[1].severity = "critical"
    /\ result[c].events[1].drift_type = "resource_count"

\* The decision table of the severity, over the set of actions.
SeverityTable(resource_type, action_set) ==
  CASE resource_type \in CriticalResources /\ "destroy" \in action_set -> "critical"
    [] resource_type \in CriticalResources /\ "destroy" \notin action_set
       /\ action_set \cap {"create", "update"} # {} -> "high"
    [] resource_type \notin CriticalResources /\ "destroy" \in action_set -> "high"
    [] resource_type \notin CriticalResources /\ "destroy" \notin action_set
       /\ action_set \cap {"create", "update"} # {} -> "medium"
    [] OTHER -> "low"

\* C5: _assess_drift_severity gives the severity of the decision table for every
\* resource type and every action list, the empty one included.
C5_SeverityTable ==
  classified.status = "done"
    => classified.severity =
         SeverityTable(classified.change[1].type, Range(classified.change[1].actions))

\* C5 witness: an update of a critical resource was classified high.
C5_Witness ==
  /\ classified.status = "done"
  /\ classified.change[1].type \in CriticalResources
  /\ classified.change[1].actions = <<"update">>
  /\ classified.severity = "high"

\* The decision table of the drift type, over the set of actions.
TypeTable(action_set, before, after) ==
  CASE action_set \cap {"create", "destroy"} # {} -> "resource_count"
    [] action_set \cap {"create", "destroy"} = {} /\ "update" \in action_set
       /\ (\E f \in SecurityFields : f \in Range(before) \cup Range(after)) -> "security"
    [] action_set \cap {"create", "destroy"} = {} /\ "update" \in action_set
       /\ ~(\E f \in SecurityFields : f \in Range(before) \cup Range(after))
       -> "configuration"
    [] OTHER -> "resource_state"

\* C6: _classify_drift_type gives the drift type of the decision table for every
\* action list and every before and after.
C6_TypeTable ==
  classified.status = "done"
    => classified.drift_type =
         TypeTable(Range(classified.change[1].actions), classified.change[1].before,
                   classified.change[1].after)

\* C6 witness: an update together with a destroy was classified resource_count
\* although a security field is mentioned.
C6_Witness ==
  /\ classified.status = "done"
  /\ classified.change[1].actions = <<"update", "destroy">>
  /\ "acl" \in Range(classified.change[1].after)
  /\ classified.drift_type = "resource_count"

\* C7: the events of one run that are about different (resource_type,
\* resource_name) pairs have different ids, and events of the same pair created on
\* the same day have the same id.
C7_IdIsFunctionOfResourceAndDay ==
  \A c \in Threads :
    \A i, j \in DOMAIN all_drift_events[c] :
      LET a == all_drift_events[c][i]
          b == all_drift_events[c][j]
      IN IF <<a.resource_type, a.resource_name>> = <<b.resource_type, b.resource_name>>
         THEN DateOf(a.timestamp) = DateOf(b.timestamp) => a.id = b.id
         ELSE a.id # b.id

\* C8: an event created for a resource on a later day than a stored event of the
\* same resource has a new id, and storing it leaves the earlier day's row in the
\* table.
C8_LaterDayKeepsHistory ==
  \A c \in Threads :
    \A r \in store :
      \A i \in DOMAIN all_drift_events[c] :
        LET e == all_drift_events[c][i]
        IN (/\ e.resource_type = r.resource_type
            /\ e.resource_name = r.resource_name
            /\ DateOf(e.timestamp) > DateOf(r.timestamp))
             => e.id # r.id

\* The last event of the list that has the id of its i-th event.
LastWithId(events, i) ==
  events[CHOOSE j \in DOMAIN events :
           /\ events[j].id = events[i].id
           /\ \A k \in DOMAIN events : events[k].id = events[i].id => k <= j]

\* The ids of the rows of a table.
IdsOf(table) == {r.id : r \in table}

\* C9: the table holds at most one row per id; after a successful store the row of
\* each stored id is the event written last with that id; and a store adds as many
\* rows as it writes ids that were not in the table, so that a repeated identical
\* run adds none.
C9_StoreIsUpsert ==
  /\ [](\A r1, r2 \in store : r1.id = r2.id => r1 = r2)
  /\ [](\A c \in Threads :
          (pc[c] = "alert" /\ "store_failed" \notin faults[c])
            => \A i \in DOMAIN all_drift_events[c] :
                 LastWithId(all_drift_events[c], i) \in store)
  /\ [][\A c \in Threads :
          (pc[c] = "store" /\ pc'[c] = "alert")
            => Cardinality(store') =
                 Cardinality(store)
                 + (IF "store_failed" \in faults'[c] THEN 0
                    ELSE Cardinality({all_drift_events[c][i].id :
                                        i \in DOMAIN all_drift_events[c]}
                                     \ IdsOf(store)))]_vars

\* C9 witness: after time has passed, a successful store of a batch of several
\* events has left one row per id in the table.
C9_Witness ==
  \E c \in Threads :
    /\ pc[c] = "alert"
    /\ "store_failed" \notin faults[c]
    /\ Len(all_drift_events[c]) >= 2
    /\ \E r \in store : r.timestamp > 0
    /\ Cardinality(store) = Cardinality({all_drift_events[c][i].id :
                                           i \in DOMAIN all_drift_events[c]})

\* C10: when the store write of a run fails, the call returns every event the run
\* computed.
C10_StoreFailureKeepsEvents ==
  \A c \in Threads :
    (Ended(c) /\ "store_failed" \in faults[c])
      => /\ result[c].status = "returned"
         /\ result[c].events = all_drift_events[c]
         /\ Len(result[c].events) >= Len(terraform_details[c])
         /\ \A i \in DOMAIN terraform_details[c] :
              /\ result[c].events[i].resource_type = terraform_details[c][i].resource_type
              /\ result[c].events[i].resource_name = terraform_details[c][i].resource_name
              /\ result[c].events[i].severity = terraform_details[c][i].severity

\* C10 witness: a call whose store write failed has returned a non-empty list.
C10_Witness ==
  \E c \in Threads :
    /\ Ended(c)
    /\ "store_failed" \in faults[c]
    /\ Len(result[c].events) >= 2

\* C11: a failure of the store write is surfaced to the caller of
\* run_drift_detection as an error: a run whose store write failed does not end
\* the way a run whose events were persisted ends.
C11_StoreFailureSurfaced ==
  \A c \in Threads :
    (Ended(c) /\ "store_failed" \in faults[c]) => result[c].status # "returned"

\* C12: whenever the plan tool is not found, times out, or emits output that is
\* not JSON, whatever its exit status, check_drift does not raise and returns
\* (False, []).
C12_FailedToolGivesNoDrift ==
  \A c \in Threads :
    (tool_result[c].kind \in {"not_found", "timeout"}
       \/ (tool_result[c].kind = "exit" /\ tool_result[c].stdout = "malformed"))
      => /\ "plan_raised" \notin faults[c]
         /\ has_terraform_drift[c] = FALSE
         /\ terraform_details[c] = <<>>

\* C13: when the plan tool runs to completion, has_drift is true exactly when its
\* exit status is 2; the no-changes status 0 and the error status 1 give
\* has_drift false and an empty change list.
C13_DriftIffExitStatusTwo ==
  \A c \in Threads :
    tool_result[c].kind = "exit"
      => /\ has_terraform_drift[c] <=> (tool_result[c].returncode = 2)
         /\ tool_result[c].returncode \in {0, 1}
              => (has_terraform_drift[c] = FALSE /\ terraform_details[c] = <<>>)

\* C13 witness: the tool exited with status 2 and a plan, and check_drift returned
\* true with the changes of the plan.
C13_Witness ==
  \E c \in Threads :
    /\ tool_result[c].kind = "exit"
    /\ tool_result[c].returncode = 2
    /\ tool_result[c].stdout = "json"
    /\ has_terraform_drift[c]
    /\ Len(terraform_details[c]) = 2

EventsAbout(events, p) == SelectSeq(events, LAMBDA e : e.resource_name = p)

\* The list holds exactly one event, a configuration event of this severity.
OneConfigurationEvent(events, severity) ==
  /\ Len(events) = 1
  /\ events[1].drift_type = "configuration"
  /\ events[1].severity = severity

\* In the recorded call, tracked path p exists and has a baseline hash, and the
\* hash of its content is / is not that baseline hash.
HashEqualsBaseline(check, p) ==
  /\ check.files[p] # Missing
  /\ p \in DOMAIN check.baseline
  /\ Sha256(check.files[p]) = check.baseline[p]

HashDiffersFromBaseline(check, p) ==
  /\ check.files[p] # Missing
  /\ p \in DOMAIN check.baseline
  /\ Sha256(check.files[p]) # check.baseline[p]

UnmodifiedSinceBaseline(check, p) ==
  \/ HashEqualsBaseline(check, p)
  \/ (p \notin DOMAIN check.baseline /\ check.files[p] = Missing)

C17_ModifiedFileEventHasDiff ==
  \A c \in Threads : \A i \in DOMAIN result[c].events :
    (/\ result[c].events[i].resource_type = "configuration_file"
     /\ result[c].events[i].severity = "medium")
      => result[c].events[i].diff # <<>>

SeverityRank(severity) ==
  CASE severity = "info" -> 0
    [] severity = "low" -> 1
    [] severity = "medium" -> 2
    [] severity = "high" -> 3
    [] severity = "critical" -> 4

\* C19: a run triggers alerting exactly when one of its events has a severity at
\* or above the configured alerting.severity_threshold; with the default
\* threshold medium, a run whose highest severity is medium triggers an alert.
C19_AlertIffAtOrAboveThreshold ==
  \A c \in Threads :
    pc[c] = "return"
      => ((\E i \in DOMAIN all_drift_events[c] :
             SeverityRank(all_drift_events[c][i].severity)
               >= SeverityRank(config.alerting.severity_threshold))
          <=> "alert" \in Range(log[c]))

\* C20: when alerting is disabled, or the run has no event to alert on, nothing is
\* sent to any channel; in particular a non-empty list of high-severity events
\* with alerting disabled produces no delivery.
C20_NothingSentWhenDisabledOrEmpty ==
  \A c \in Threads :
    (\/ ~config.alerting.enabled
     \/ SelectSeq(all_drift_events[c],
                  LAMBDA e : e.severity \in {"high", "critical"}) = <<>>)
      => sent[c] = <<>>

\* C20 witness: with alerting disabled and both channels configured,
\* _send_drift_alerts was called with a non-empty list and the run ended without
\* a delivery.
C20_Witness ==
  \E c \in Threads :
    /\ Ended(c)
    /\ ~config.alerting.enabled
    /\ config.alerting.webhook_url # "None"
    /\ config.alerting.email_recipients # <<>>
    /\ "alert" \in Range(log[c])
    /\ high_severity_events[c] # <<>>
    /\ sent[c] = <<>>

\* ------------------------------------------------------------- digest runs

BucketDestroy ==
  [type |-> "google_storage_bucket", name |-> "logs",
   actions |-> <<"destroy">>, before |-> <<"labels">>, after |-> NoneValue]

\* Plans of 0 to MaxDigestEvents changes, critical and high in turn.
DigestPlans ==
  {[i \in 1..n |-> IF i % 2 = 1 THEN FirewallDestroy ELSE BucketDestroy] :
     n \in 0..MaxDigestEvents}

WebhookOnly == [enabled |-> TRUE, webhook_url |-> "https://hooks.example/drift",
                email_recipients |-> <<>>, severity_threshold |-> "medium"]

EmailOnly == [enabled |-> TRUE, webhook_url |-> "None",
              email_recipients |-> <<"ops@example.com">>,
              severity_threshold |-> "medium"]

\* The configurations of the digest runs: the plan detector alone, with both
\* channels, one of them, or none.
DigestConfigs ==
  {[terraform |-> TRUE, cloud_resources |-> FALSE, configuration |-> FALSE,
    paths |-> <<"configs/app.json">>, alerting |-> a] :
     a \in {AllChannels, WebhookOnly, EmailOnly, DefaultAlerting}}

InitDigest == InitWith(DigestPlans, DigestConfigs, {AllPresent}, {"t1"}, {NoCall})

NextDigest == \E c \in Threads : RunStep(c)

\* One thread runs the manager over plans of up to MaxDigestEvents alerted events.
SpecDigest == InitDigest /\ [][NextDigest]_vars

\* str.upper() of a severity value.
Upper(severity) ==
  CASE severity = "critical" -> "CRITICAL"
    [] severity = "high" -> "HIGH"
    [] severity = "medium" -> "MEDIUM"
    [] severity = "low" -> "LOW"
    [] severity = "info" -> "INFO"

\* C21: for an alert over n events, the digest of _format_drift_alert summarizes
\* exactly the first min(n, 10) events individually, in order (the entry of an
\* event names its severity, resource type and resource name), and carries a
\* trailing line stating that n - 10 more events exist exactly when n > 10; for
\* n = 11 it has 10 entries and a line reading "and 1 more".
C21_DigestSummarizesFirstTen ==
  \A c \in Threads : \A d \in DOMAIN sent[c] :
    LET events  == high_severity_events[c]
        n       == Len(events)
        shown   == IF n < 10 THEN n ELSE 10
        message == sent[c][d].message
    IN /\ Len(message) = 4 + 5 * shown + (IF n > 10 THEN 1 ELSE 0)
       /\ \A i \in 1..shown :
            message[4 + 5 * (i - 1) + 1] =
              "* " \o Upper(events[i].severity) \o ": "
                   \o events[i].resource_type \o "/" \o events[i].resource_name
       /\ n > 10 =>
            message[Len(message)] = "... and " \o ToString(n - 10) \o " more events"

\* The channels the alerting section configures, in the order they are served.
ConfiguredChannels ==
  (IF config.alerting.webhook_url # "None" THEN <<"webhook">> ELSE <<>>)
  \o (IF config.alerting.email_recipients # <<>> THEN <<"email">> ELSE <<>>)

C23_BatchIsAtomic ==
  [][\A c \in Threads :
       (pc[c] = "store" /\ pc'[c] = "alert")
         => IF "store_failed" \in faults'[c]
            THEN store' = store
            ELSE /\ \A i \in DOMAIN all_drift_events[c] :
                      [LastWithId(all_drift_events[c], i)
                         EXCEPT !.resolution_timestamp = <<>>] \in store'
                 /\ \A r \in store' \ store :
                      \E i \in DOMAIN all_drift_events[c] : r.id = all_drift_events[c][i].id]_vars

\* C23 witness: the store of a batch of several events failed (before, between
\* or after its inserts), and the table holds no row.
C23_Witness ==
  \E c \in Threads :
    /\ pc[c] = "alert"
    /\ "store_failed" \in faults[c]
    /\ Len(all_drift_events[c]) >= 2
    /\ store = {}

\* ------------------------------------------------------- detector order runs

\* The configuration of the order runs: the three detectors, one tracked path.
OrderConfigs == {cfg \in MainConfigs : cfg.terraform}

\* The tracked files of the order runs: all present, or the tracked one missing.
OrderFiles == {AllPresent, [AllPresent EXCEPT !["configs/app.json"] = Missing]}

\* The orders the three detector blocks can be executed in.
Orders == {order \in InjSeqs(Detectors, 3) : Len(order) = 3}

InitOrder == InitWith(MainPlans, OrderConfigs, OrderFiles, {"t1"}, {NoCall})

NextOrder == \E order \in Orders, l \in Lookups : RunInOrder(order, l)

\* The detector blocks are run in every order over the same detector outputs.
SpecOrder == InitOrder /\ [][NextOrder]_vars

InitResolve ==
  InitWith({<<FirewallDestroy, BucketUpdate>>}, MainConfigs, {AllPresent}, {"t1"}, {NoCall})

NextResolve ==
  \/ \E c \in Threads : RunStep(c)
  \/ \E r \in store : MarkResolved(r)
  \/ Tick

\* One thread calls the manager while stored events are marked resolved.
SpecResolve == InitResolve /\ [][NextResolve]_vars

\* C25: the engine never sets or changes resolved / resolution_timestamp: every
\* event a run creates is unresolved with no resolution timestamp, and a step of
\* a detection run (including a store that writes an id already present) leaves
\* the resolved flag and the resolution timestamp of every stored event unchanged.
C25_RunLeavesResolutionUnchanged ==
  [][pc' # pc
       => /\ \A c \in Threads : \A i \in DOMAIN all_drift_events'[c] :
               /\ ~all_drift_events'[c][i].resolved
               /\ all_drift_events'[c][i].resolution_timestamp = <<>>
          /\ \A r \in store : \E r2 \in store' :
               /\ r2.id = r.id
               /\ r2.resolved = r.resolved
               /\ r2.resolution_timestamp = r.resolution_timestamp]_vars

\* ------------------------------------------------------------ history calls

\* The ids of the rows a database file can hold when the manager opens it.
HistoryIds == {Md5Prefix("vm-1"), Md5Prefix("logs"), Md5Prefix("allow_ssh")}

\* The row of an event stored at instant t under the given id.
HistoryRow(id, t) == [TerraformEvent(DriftDetail(FirewallDestroy), t) EXCEPT !.id = id]

\* The tables of the history calls: for each id no row, or one row stored at some
\* instant.
HistoryTables ==
  {{HistoryRow(id, at[id]) : id \in {i \in HistoryIds : at[i] >= 0}} :
     at \in [HistoryIds -> -1..MaxNow]}

\* The state after DriftDetectionManager.__init__ on a database file that already
\* holds rows (CREATE TABLE IF NOT EXISTS keeps them), at any instant.
InitHistory ==
  /\ now \in 0..MaxNow
  /\ tf_plan = <<>>
  /\ files = AllPresent
  /\ config \in PlanConfigs
  /\ baseline_hashes = CreateBaseline(config.paths, files)
  /\ store \in HistoryTables
  /\ callers = {"t1"}
  /\ pc = [c \in Threads |-> "idle"]
  /\ all_drift_events = [c \in Threads |-> <<>>]
  /\ terraform_details = [c \in Threads |-> <<>>]
  /\ tool_result = [c \in Threads |-> NoToolRun]
  /\ log = [c \in Threads |-> <<>>]
  /\ faults = [c \in Threads |-> {}]
  /\ sent = [c \in Threads |-> <<>>]
  /\ result = [c \in Threads |-> [status |-> "none", events |-> <<>>]]
  /\ classified = NoCall
  /\ has_terraform_drift = [c \in Threads |-> FALSE]
  /\ cloud_drift_events = [c \in Threads |-> <<>>]
  /\ high_severity_events = [c \in Threads |-> <<>>]
  /\ config_checks = <<>>
  /\ order_runs = <<>>
  /\ history = NoHistory
  /\ cwd = OriginalCwd

NextHistory == \E days \in 0..MaxDays, failed \in BOOLEAN : GetDriftHistory(days, failed)

\* get_drift_history is called on every table at every instant.
SpecHistory == InitHistory /\ [][NextHistory]_vars

\* C26: get_drift_history(days) returns exactly the stored events whose timestamp
\* is at or after now minus days, each stored id once, ordered by timestamp
\* descending; when the read of the store fails it returns an empty list.
C26_HistoryIsRecentRowsNewestFirst ==
  history.status = "returned"
    => IF history.failed
       THEN history.events = <<>>
       ELSE LET recent == {r \in store : r.timestamp >= now - history.days * TicksPerDay}
            IN /\ Range(history.events) = recent
               /\ Len(history.events) = Cardinality(recent)
               /\ \A i, j \in DOMAIN history.events :
                    i # j => history.events[i].id # history.events[j].id
               /\ \A i, j \in DOMAIN history.events :
                    i < j => history.events[i].timestamp >= history.events[j].timestamp

\* C26 witness: a call returned two events in descending order of distinct
\* timestamps while the table holds an older row that the cutoff leaves out.
C26_Witness ==
  /\ history.status = "returned"
  /\ ~history.failed
  /\ Len(history.events) = 2
  /\ history.events[1].timestamp > history.events[2].timestamp
  /\ Cardinality(store) = 3

\* --------------------------------------------------------------- diff runs

\* The keys of the dicts of the diff runs.
DiffKeys == {"acl", "firewall", "labels"}

\* The before / after values of the diff runs: None and every dict over DiffKeys
\* in every insertion order.
DiffValues == {NoneValue} \cup InjSeqs(DiffKeys, Cardinality(DiffKeys))

\* The plans of the diff runs: one updated resource with every before and after.
DiffPlans ==
  {<<[type |-> "google_storage_bucket", name |-> "logs", actions |-> <<"update">>,
      before |-> b, after |-> a]>> : b \in DiffValues, a \in DiffValues}

InitDiff == InitWith(DiffPlans, PlanConfigs, {AllPresent}, {"t1"}, {NoCall})

NextDiff == \E c \in Threads : RunStep(c)

\* One thread runs the manager over one change with every before and after.
SpecDiff == InitDiff /\ [][NextDiff]_vars

\* Two values are the same dict written with its keys in any order, or the same
\* value.
SameUpToKeyOrder(x, y) ==
  \/ x = y
  \/ (x # NoneValue /\ y # NoneValue /\ Len(x) = Len(y) /\ Range(x) = Range(y))

\* C27: _generate_diff is deterministic and gives no differing lines for two
\* values that are equal or differ only in the order of their keys: the diff of
\* such a pair is empty, and the diff computed again for the same before and
\* after (the row a former run stored) is the same.
C27_DiffIgnoresKeyOrder ==
  \A c \in Threads : \A i \in DOMAIN terraform_details[c] :
    LET detail == terraform_details[c][i]
        event  == all_drift_events[c][i]
    IN /\ SameUpToKeyOrder(detail.before, detail.after) => event.diff = <<>>
       /\ \A r \in store :
            (r.expected_value = event.expected_value
               /\ r.actual_value = event.actual_value)
              => r.diff = event.diff

\* C27 witness: a second run computed the diff of a dict of three keys and the
\* same dict with its keys in another order, it is empty, and it equals the diff
\* of the row the first run stored.
C27_Witness ==
  \E c \in Threads :
    /\ pc[c] = "cloud"
    /\ Len(terraform_details[c]) = 1
    /\ Len(terraform_details[c][1].before) = 3
    /\ terraform_details[c][1].before # terraform_details[c][1].after
    /\ SameUpToKeyOrder(terraform_details[c][1].before, terraform_details[c][1].after)
    /\ all_drift_events[c][1].diff = <<>>
    /\ \E r \in store : r.actual_value = all_drift_events[c][1].actual_value

\* The position of the first occurrence of a call in a run's log (0: not there).
FirstIndex(calls, call) ==
  IF call \in Range(calls)
  THEN CHOOSE i \in DOMAIN calls : calls[i] = call /\ \A j \in 1..(i - 1) : calls[j] # call
  ELSE 0

\* C28: within every run the phases occur in the order detect, persist, alert:
\* the store write is attempted only after every enabled detector has been
\* invoked, each call happens at most once and in that order, no alert is sent on
\* any channel before the store write of the run has been attempted, and the
\* run is back to idle only through its return.
C28_PhasesInOrder ==
  \A c \in Threads :
    /\ "store" \in Range(log[c])
         => \A d \in EnabledDetectors :
              FirstIndex(log[c], d) > 0 /\ FirstIndex(log[c], d) < FirstIndex(log[c], "store")
    /\ ("alert" \in Range(log[c]) \/ sent[c] # <<>>)
         => (FirstIndex(log[c], "store") > 0
             /\ FirstIndex(log[c], "store") < FirstIndex(log[c], "alert"))
    /\ \A i, j \in DOMAIN log[c] :
         i < j => FirstIndex(<<"terraform", "cloud", "config", "store", "alert">>, log[c][i])
                    < FirstIndex(<<"terraform", "cloud", "config", "store", "alert">>, log[c][j])
    /\ (pc[c] = "idle" /\ log[c] # <<>>) => Ended(c)

\* C28 witness: a run with the three detectors enabled has sent its alerts on both
\* channels after its store write and is back to idle.
C28_Witness ==
  \E c \in Threads :
    /\ Ended(c)
    /\ log[c] = <<"terraform", "cloud", "config", "store", "alert">>
    /\ Len(sent[c]) = 2

\* C29: when the store write of a run fails, alerting is not suppressed: the
\* run's high and critical events are handed to _send_drift_alerts in that same
\* run and, with alerting enabled, go out on every configured channel.
C29_AlertsFollowFailedStore ==
  \A c \in Threads :
    ("store_failed" \in faults[c] /\ pc[c] \in {"return", "idle"})
      => LET high == SelectSeq(all_drift_events[c],
                               LAMBDA e : e.severity \in {"high", "critical"})
         IN /\ high_severity_events[c] = high
            /\ (high # <<>> /\ config.alerting.enabled)
                 => [d \in DOMAIN sent[c] |-> sent[c][d].channel] = ConfiguredChannels

\* C29 witness: a run whose store write failed has ended after sending the digest
\* of its high and critical events on both channels.
C29_Witness ==
  \E c \in Threads :
    /\ Ended(c)
    /\ "store_failed" \in faults[c]
    /\ high_severity_events[c] # <<>>
    /\ Len(sent[c]) = 2
    /\ store = {}

\* ------------------------------------------------------------ working directory

\* C30: check_drift leaves the process working directory unchanged: on every
\* exit path (success, tool not found, timeout, malformed output, any other
\* exception) the working directory after the call equals the working directory
\* before the call.
C30_CheckDriftLeavesCwdUnchanged ==
  [][\A c \in Threads :
       (pc[c] = "terraform" /\ pc'[c] # "terraform" /\ config.terraform)
         => cwd' = cwd]_vars

====
